---- MODULE Spec2Model ----
(***************************************************************************)
(* A model of walrus' expression IR (src/src/ir/mod.rs): the Expr node     *)
(* enumeration, the reachability predicate, the generic traversal, the     *)
(* arena the nodes live in, and the debug rendering of branches and block  *)
(* names.                                                                  *)
(***************************************************************************)
EXTENDS Naturals, Sequences, FiniteSets, TLC

VARIABLES
    exprs,      \* the function's arena: Seq of Expr payloads, exprs[i+1] has index i
    issued,     \* every ExprId this arena ever handed out
    control,    \* the builder's control frames (innermost last)
    operands,   \* the builder's operand stack of ExprIds (top last)
    phase,      \* "build" | "built" | "pass" | "walk" | "done" | "panic" | "analysis" | "render" | "rendered"
    rewritten,  \* whether a rewrite pass has replaced a node
    stack,      \* the walk's pending ExprId::visit calls (next first)
    visited,    \* the ExprIds whose node was handed to visit_expr, in order
    cursor,     \* analysis: number of Expr variants classified so far
    nTrue,      \* analysis: variants classified true
    nFalse,     \* analysis: variants classified false
    subject,    \* the node last classified / rendered
    verdict,    \* the value following_instructions_are_unreachable returned
    f,          \* DisplayExpr.f, the textual output buffer
    out         \* DotExpr.out, the graph output buffer

vars == <<exprs, issued, control, operands, phase, rewritten, stack, visited,
          cursor, nTrue, nFalse, subject, verdict, f, out>>

buildVars == <<exprs, issued, control, operands, rewritten>>
walkVars == <<stack, visited>>
analysisVars == <<cursor, nTrue, nFalse, verdict>>
renderVars == <<f, out>>

(***************************************************************************)
(* Bounds of the model.                                                    *)
(***************************************************************************)
MaxNodes == 5       \* nodes one function's arena holds
MaxArity == 1       \* longest params / results list of a block
MaxPassNodes == 4   \* largest function body a rewrite pass is run on
MaxVisits == 12     \* visit_expr calls after which a walk is cut off
MaxIndex == 10      \* largest raw arena index that is rendered
MaxTable == 2       \* longest br_table target table that is rendered

None == [variant |-> "None"]

(***************************************************************************)
(* Identities.  An id_arena Id is an index together with the arena that    *)
(* issued it.                                                              *)
(***************************************************************************)
ThisArena == "f"
OtherArena == "g"

ExprId(i) == [arena |-> ThisArena, idx |-> i]

ForeignId == [arena |-> OtherArena, idx |-> 0]

BlockKind == {"Block", "Loop", "IfElse", "FunctionEntry"}

\* The variants of enum Expr, in declaration order.
ExprVariants ==
    << "Block", "Call", "CallIndirect", "LocalGet", "LocalSet", "LocalTee",
       "GlobalGet", "GlobalSet", "Const", "Binop", "Unop", "Select",
       "Unreachable", "Br", "BrIf", "IfElse", "BrTable", "Drop", "Return",
       "MemorySize", "MemoryGrow", "Load", "Store" >>

\* The operators of enum BinaryOp, in declaration order; an operator is its
\* position in that order.
BinaryOpNames ==
    << "I32Eq", "I32Ne", "I32LtS", "I32LtU", "I32GtS", "I32GtU", "I32LeS",
       "I32LeU", "I32GeS", "I32GeU", "I64Eq", "I64Ne", "I64LtS", "I64LtU",
       "I64GtS", "I64GtU", "I64LeS", "I64LeU", "I64GeS", "I64GeU", "F32Eq",
       "F32Ne", "F32Lt", "F32Gt", "F32Le", "F32Ge", "F64Eq", "F64Ne",
       "F64Lt", "F64Gt", "F64Le", "F64Ge", "I32Add", "I32Sub", "I32Mul",
       "I32DivS", "I32DivU", "I32RemS", "I32RemU", "I32And", "I32Or",
       "I32Xor", "I32Shl", "I32ShrS", "I32ShrU", "I32Rotl", "I32Rotr",
       "I64Add", "I64Sub", "I64Mul", "I64DivS", "I64DivU", "I64RemS",
       "I64RemU", "I64And", "I64Or", "I64Xor", "I64Shl", "I64ShrS",
       "I64ShrU", "I64Rotl", "I64Rotr", "F32Add", "F32Sub", "F32Mul",
       "F32Div", "F32Min", "F32Max", "F32Copysign", "F64Add", "F64Sub",
       "F64Mul", "F64Div", "F64Min", "F64Max", "F64Copysign" >>

BinaryOp == 0..(Len(BinaryOpNames) - 1)

\* The operators of enum UnaryOp, in declaration order.
UnaryOpNames ==
    << "I32Eqz", "I32Clz", "I32Ctz", "I32Popcnt", "I64Eqz", "I64Clz",
       "I64Ctz", "I64Popcnt", "F32Abs", "F32Neg", "F32Ceil", "F32Floor",
       "F32Trunc", "F32Nearest", "F32Sqrt", "F64Abs", "F64Neg", "F64Ceil",
       "F64Floor", "F64Trunc", "F64Nearest", "F64Sqrt", "I32WrapI64",
       "I32TruncSF32", "I32TruncUF32", "I32TruncSF64", "I32TruncUF64",
       "I64ExtendSI32", "I64ExtendUI32", "I64TruncSF32", "I64TruncUF32",
       "I64TruncSF64", "I64TruncUF64", "F32ConvertSI32", "F32ConvertUI32",
       "F32ConvertSI64", "F32ConvertUI64", "F32DemoteF64", "F64ConvertSI32",
       "F64ConvertUI32", "F64ConvertSI64", "F64ConvertUI64",
       "F64PromoteF32", "I32ReinterpretF32", "I64ReinterpretF64",
       "F32ReinterpretI32", "F64ReinterpretI64" >>

UnaryOp == 0..(Len(UnaryOpNames) - 1)

\* The operator of the given enum that carries the given name.
OpNamed(names, n) == (CHOOSE i \in DOMAIN names : names[i] = n) - 1

\* "{:?}" of an operator, as #[derive(Debug)] prints it: the variant's name.
DebugOp(names, op) == names[op + 1]

SeqsUpTo(S, n) == UNION {[1..k -> S] : k \in 0..n}

Range(s) == {s[i] : i \in DOMAIN s}

(***************************************************************************)
(* Block::new: a block of the given kind and signature with an empty body. *)
(***************************************************************************)
NewBlock(kind, params, results) ==
    [variant |-> "Block", kind |-> kind, params |-> params,
     results |-> results, exprs |-> <<>>]

(***************************************************************************)
(* The payloads of one variant whose child ids come from ids and whose     *)
(* branch targets come from blocks (the struct each variant is rewritten   *)
(* into by walrus_expr).                                                   *)
(***************************************************************************)
ExprsOfVariant(v, ids, blocks) ==
    CASE v = "Block" ->
           {[variant |-> v, kind |-> k, params |-> p, results |-> r, exprs |-> b] :
               k \in BlockKind, p \in {<<>>}, r \in SeqsUpTo({"I32"}, 1),
               b \in SeqsUpTo(ids, 1)}
      [] v = "Call" ->
           {[variant |-> v, func |-> fn, args |-> a] :
               fn \in 0..1, a \in SeqsUpTo(ids, 1)}
      [] v = "CallIndirect" ->
           {[variant |-> v, ty |-> 0, table |-> 0, func |-> x, args |-> a] :
               x \in ids, a \in SeqsUpTo(ids, 1)}
      [] v = "LocalGet" -> {[variant |-> v, local |-> l] : l \in 0..1}
      [] v = "LocalSet" ->
           {[variant |-> v, local |-> l, value |-> x] : l \in 0..1, x \in ids}
      [] v = "LocalTee" ->
           {[variant |-> v, local |-> l, value |-> x] : l \in 0..1, x \in ids}
      [] v = "GlobalGet" -> {[variant |-> v, global |-> g] : g \in 0..1}
      [] v = "GlobalSet" ->
           {[variant |-> v, global |-> g, value |-> x] : g \in 0..1, x \in ids}
      [] v = "Const" -> {[variant |-> v, value |-> c] : c \in 0..1}
      [] v = "Binop" ->
           {[variant |-> v, op |-> o, lhs |-> x, rhs |-> y] :
               o \in {OpNamed(BinaryOpNames, "I32Add"), OpNamed(BinaryOpNames, "I32Eq")}, x \in ids, y \in ids}
      [] v = "Unop" ->
           {[variant |-> v, op |-> o, expr |-> x] :
               o \in {OpNamed(UnaryOpNames, "I32Eqz"), OpNamed(UnaryOpNames, "F32Neg")}, x \in ids}
      [] v = "Select" ->
           {[variant |-> v, condition |-> c, consequent |-> x, alternative |-> y] :
               c \in ids, x \in ids, y \in ids}
      [] v = "Unreachable" -> {[variant |-> v]}
      [] v = "Br" ->
           {[variant |-> v, block |-> b, args |-> a] :
               b \in blocks, a \in SeqsUpTo(ids, 1)}
      [] v = "BrIf" ->
           {[variant |-> v, condition |-> c, block |-> b, args |-> a] :
               c \in ids, b \in blocks, a \in SeqsUpTo(ids, 1)}
      [] v = "IfElse" ->
           {[variant |-> v, condition |-> c, consequent |-> x, alternative |-> y] :
               c \in ids, x \in blocks, y \in blocks}
      [] v = "BrTable" ->
           {[variant |-> v, which |-> w, blocks |-> t, default |-> d, args |-> a] :
               w \in ids, t \in SeqsUpTo(blocks, 1), d \in blocks,
               a \in SeqsUpTo(ids, 1)}
      [] v = "Drop" -> {[variant |-> v, expr |-> x] : x \in ids}
      [] v = "Return" -> {[variant |-> v, values |-> a] : a \in SeqsUpTo(ids, 1)}
      [] v = "MemorySize" -> {[variant |-> v, memory |-> m] : m \in 0..1}
      [] v = "MemoryGrow" ->
           {[variant |-> v, memory |-> m, pages |-> x] : m \in 0..1, x \in ids}
      [] v = "Load" ->
           {[variant |-> v, memory |-> 0, kind |-> k, arg |-> [align |-> 1, offset |-> 0],
             address |-> x] : k \in {"I32", "I32_8_s"}, x \in ids}
      [] v = "Store" ->
           {[variant |-> v, memory |-> 0, kind |-> k, arg |-> [align |-> 1, offset |-> 0],
             address |-> x, value |-> y] : k \in {"I32", "I32_8"}, x \in ids, y \in ids}

(***************************************************************************)
(* Expr::following_instructions_are_unreachable.  The match has one arm    *)
(* per variant and no default arm.                                         *)
(***************************************************************************)
\* A classification that takes the conditional br_if for unconditional.
MutUnreachableBrIf(e) ==
    e.variant \in {"Unreachable", "Br", "BrIf", "BrTable", "Return"}

\* A classification that lets control fall through a return.
MutUnreachableNoReturn(e) ==
    e.variant \in {"Unreachable", "Br", "BrTable"}

following_instructions_are_unreachable(e) ==
    CASE e.variant \in {"Unreachable", "Br", "BrTable", "Return"} -> TRUE
      [] e.variant \in {"Block", "Call", "LocalGet", "LocalSet", "LocalTee",
                        "GlobalGet", "GlobalSet", "Const", "Binop", "Unop",
                        "Select", "BrIf", "IfElse", "MemorySize", "MemoryGrow",
                        "CallIndirect", "Load", "Store", "Drop"} -> FALSE

(***************************************************************************)
(* The ExprId- and BlockId-typed fields of a node, in declaration order.   *)
(* ids holds the field's ids (one for a single id, all of them for a list  *)
(* of ids); skip tells whether the field is marked #[walrus(skip_visit)].  *)
(***************************************************************************)
One(name, id) == [name |-> name, ids |-> <<id>>, skip |-> FALSE]

Many(name, ids) == [name |-> name, ids |-> ids, skip |-> FALSE]

Skip(name, ids) == [name |-> name, ids |-> ids, skip |-> TRUE]

IdFields(e) ==
    CASE e.variant = "Block" -> <<Many("exprs", e.exprs)>>
      [] e.variant = "Call" -> <<Many("args", e.args)>>
      [] e.variant = "CallIndirect" -> <<One("func", e.func), Many("args", e.args)>>
      [] e.variant = "LocalGet" -> <<>>
      [] e.variant = "LocalSet" -> <<One("value", e.value)>>
      [] e.variant = "LocalTee" -> <<One("value", e.value)>>
      [] e.variant = "GlobalGet" -> <<>>
      [] e.variant = "GlobalSet" -> <<One("value", e.value)>>
      [] e.variant = "Const" -> <<>>
      [] e.variant = "Binop" -> <<One("lhs", e.lhs), One("rhs", e.rhs)>>
      [] e.variant = "Unop" -> <<One("expr", e.expr)>>
      [] e.variant = "Select" ->
           <<One("condition", e.condition), One("consequent", e.consequent),
             One("alternative", e.alternative)>>
      [] e.variant = "Unreachable" -> <<>>
      [] e.variant = "Br" -> <<Skip("block", <<e.block>>), Many("args", e.args)>>
      [] e.variant = "BrIf" ->
           <<One("condition", e.condition), Skip("block", <<e.block>>),
             Many("args", e.args)>>
      [] e.variant = "IfElse" ->
           <<One("condition", e.condition), One("consequent", e.consequent),
             One("alternative", e.alternative)>>
      [] e.variant = "BrTable" ->
           <<One("which", e.which), Skip("blocks", e.blocks),
             Skip("default", <<e.default>>), Many("args", e.args)>>
      [] e.variant = "Drop" -> <<One("expr", e.expr)>>
      [] e.variant = "Return" -> <<Many("values", e.values)>>
      [] e.variant = "MemorySize" -> <<>>
      [] e.variant = "MemoryGrow" -> <<One("pages", e.pages)>>
      [] e.variant = "Load" -> <<One("address", e.address)>>
      [] e.variant = "Store" -> <<One("address", e.address), One("value", e.value)>>

RECURSIVE Flatten(_)
Flatten(seqs) == IF seqs = <<>> THEN <<>> ELSE Head(seqs) \o Flatten(Tail(seqs))

Reverse(seq) == [i \in DOMAIN seq |-> seq[Len(seq) + 1 - i]]

\* The ids the given fields hold, in order.
IdsOf(fields) == Flatten([i \in DOMAIN fields |-> fields[i].ids])

\* The fields that carry no skip_visit attribute, in declared order.
Unskipped(fields) ==
    LET keep(fld) == ~fld.skip IN SelectSeq(fields, keep)

\* A walk that also descends into every branch target.
MutVisitSkipIgnored(e) == IdsOf(IdFields(e))

\* A walk that descends into the target of a br.
MutVisitBrTarget(e) ==
    IF e.variant = "Br" THEN IdsOf(IdFields(e)) ELSE IdsOf(Unskipped(IdFields(e)))

\* A walk that takes a node's fields last to first.
MutVisitFieldsReversed(e) == IdsOf(Unskipped(Reverse(IdFields(e))))

(***************************************************************************)
(* The ids the generic walk recurses into, in order: those of every field  *)
(* that is not marked skip_visit.                                          *)
(***************************************************************************)
VisitFields(e) == IdsOf(Unskipped(IdFields(e)))

\* The skip_visit BlockId fields of a branch: its control destinations.
BranchTargets(e) ==
    LET skipped(fld) == fld.skip IN IdsOf(SelectSeq(IdFields(e), skipped))

(***************************************************************************)
(* Debug rendering.                                                        *)
(***************************************************************************)
Digit(d) == <<"0", "1", "2", "3", "4", "5", "6", "7", "8", "9">>[d + 1]

\* "{}" of a usize: its decimal digits, most significant first.
RECURSIVE Decimal(_)
Decimal(n) == IF n < 10 THEN Digit(n) ELSE Decimal(n \div 10) \o Digit(n % 10)

\* ExprId::from(b).index()
index(id) == id.idx

\* .collect::<Vec<_>>().join(sep)
RECURSIVE Join(_, _)
Join(strs, sep) ==
    IF strs = <<>> THEN ""
    ELSE IF Len(strs) = 1 THEN strs[1]
    ELSE strs[1] \o sep \o Join(Tail(strs), sep)

display_block_name(block) ==
    IF block.kind = "Loop" THEN "loop" ELSE "block"

\* A graph rendering that names blocks the way the textual one does.
MutDotBlockNameAsDisplay(block) ==
    IF block.kind = "Loop" THEN "loop" ELSE "block"

dot_block_name(block) ==
    CASE block.kind = "Loop" -> "loop"
      [] block.kind = "IfElse" -> "if_else"
      [] block.kind = "FunctionEntry" -> "entry"
      [] block.kind = "Block" -> "block"

display_br(e) == " (;e" \o Decimal(index(e.block)) \o ";)"

display_br_if(e) == " (;e" \o Decimal(index(e.block)) \o ";)"

\* An annotation that lists the table first and the default last.
MutDisplayBrTableDefaultLast(e) ==
    LET blocks == Join([i \in DOMAIN e.blocks |-> "e" \o Decimal(index(e.blocks[i]))], " ")
    IN  " (;[" \o blocks \o "]  default:e" \o Decimal(index(e.default)) \o ";)"

display_br_table(e) ==
    LET blocks == Join([i \in DOMAIN e.blocks |-> "e" \o Decimal(index(e.blocks[i]))], " ")
    IN  " (;default:e" \o Decimal(index(e.default)) \o "  [" \o blocks \o "];)"

display_binop_name(e) == DebugOp(BinaryOpNames, e.op)

dot_binop_name(e) == DebugOp(BinaryOpNames, e.op)

display_unop_name(e) == DebugOp(UnaryOpNames, e.op)

dot_unop_name(e) == DebugOp(UnaryOpNames, e.op)

\* <ExprId as Dot>::dot
dot(id) == "expr_" \o Decimal(index(id))

(***************************************************************************)
(* The arena of one function.  Ids are indices into an append-only store.  *)
(***************************************************************************)
NextId(arena) == ExprId(Len(arena))

Alloc(arena, e) == Append(arena, e)

Valid(arena, id) == id.arena = ThisArena /\ id.idx < Len(arena)

Get(arena, id) == arena[id.idx + 1]

\* A replace that drops the last slot instead of overwriting it.
MutReplaceSwapRemove(arena, id, e) ==
    IF id.idx + 1 = Len(arena) THEN SubSeq(arena, 1, Len(arena) - 1)
    ELSE [arena EXCEPT ![id.idx + 1] = e]

Replace(arena, id, e) == [arena EXCEPT ![id.idx + 1] = e]

\* block.exprs.push(id)
PushExpr(arena, b, id) == [arena EXCEPT ![b.idx + 1].exprs = Append(@, id)]

\* block.exprs.extend(ids)
ExtendExprs(arena, b, ids) == [arena EXCEPT ![b.idx + 1].exprs = @ \o ids]

(***************************************************************************)
(* The construction pass.  The validation context keeps one control frame  *)
(* per open block and the operand stack; for a branch it supplies the      *)
(* target block and the arity that target expects.                         *)
(***************************************************************************)
NoId == [arena |-> "none", idx |-> 0]

Frame(b, h, role, cond, cons) ==
    [block |-> b, height |-> h, dead |-> FALSE, role |-> role,
     condition |-> cond, consequent |-> cons]

ValTypes == {"I32"}

Top == control[Len(control)]

Avail == Len(operands) - Top.height

Building == phase = "build" /\ control # <<>> /\ ~Top.dead

Room(n) == Len(exprs) + n <= MaxNodes

TopOperands(n) == SubSeq(operands, Len(operands) - n + 1, Len(operands))

DropOperands(n) == SubSeq(operands, 1, Len(operands) - n)

\* A label arity that takes the results of a loop, not its params.
MutLabelArityResults(block) == Len(block.results)

\* The arity a branch to this block carries.
LabelArity(block) ==
    IF block.kind = "Loop" THEN Len(block.params) ELSE Len(block.results)

\* The frame a relative branch depth names.
Target(depth) == control[Len(control) - depth].block

BuildConst ==
    /\ Building /\ Room(1)
    /\ exprs' = Alloc(exprs, [variant |-> "Const", value |-> 0])
    /\ issued' = issued \cup {NextId(exprs)}
    /\ operands' = Append(operands, NextId(exprs))
    /\ UNCHANGED <<control, phase, rewritten, walkVars, analysisVars, subject, renderVars>>

BuildBinop ==
    /\ Building /\ Room(1) /\ Avail >= 2
    /\ LET ops == TopOperands(2)
       IN  exprs' = Alloc(exprs, [variant |-> "Binop",
                                  op |-> OpNamed(BinaryOpNames, "I32Add"),
                                  lhs |-> ops[1], rhs |-> ops[2]])
    /\ issued' = issued \cup {NextId(exprs)}
    /\ operands' = Append(DropOperands(2), NextId(exprs))
    /\ UNCHANGED <<control, phase, rewritten, walkVars, analysisVars, subject, renderVars>>

BuildDrop ==
    /\ Building /\ Room(1) /\ Avail >= 1
    /\ exprs' = PushExpr(Alloc(exprs, [variant |-> "Drop", expr |-> TopOperands(1)[1]]),
                         Top.block, NextId(exprs))
    /\ issued' = issued \cup {NextId(exprs)}
    /\ operands' = DropOperands(1)
    /\ UNCHANGED <<control, phase, rewritten, walkVars, analysisVars, subject, renderVars>>

OpenBlock(kind, params, results) ==
    /\ Building /\ Room(1)
    /\ Avail >= Len(params)
    /\ exprs' = Alloc(exprs, NewBlock(kind, params, results))
    /\ control' = Append(control, Frame(NextId(exprs), Len(operands) - Len(params),
                                        "plain", NoId, NoId))
    /\ issued' = issued \cup {NextId(exprs)}
    /\ UNCHANGED <<operands, phase, rewritten, walkVars, analysisVars, subject, renderVars>>

\* block / loop with the empty block type
BuildBlock == \E kind \in {"Block", "Loop"} : OpenBlock(kind, <<>>, <<>>)

\* block / loop with a block type that has params or results
BuildBlockTyped ==
    \E kind \in {"Block", "Loop"}, params \in SeqsUpTo(ValTypes, MaxArity),
       results \in SeqsUpTo(ValTypes, MaxArity) :
         /\ params # <<>> \/ results # <<>>
         /\ OpenBlock(kind, params, results)

OpenIf(results) ==
    /\ Building /\ Room(3) /\ Avail >= 1
    /\ exprs' = Alloc(exprs, NewBlock("IfElse", <<>>, results))
    /\ control' = Append(control, Frame(NextId(exprs), Len(operands) - 1,
                                        "then", TopOperands(1)[1], NoId))
    /\ issued' = issued \cup {NextId(exprs)}
    /\ operands' = DropOperands(1)
    /\ UNCHANGED <<phase, rewritten, walkVars, analysisVars, subject, renderVars>>

BuildIf == OpenIf(<<>>)

BuildIfTyped == \E results \in SeqsUpTo(ValTypes, MaxArity) \ {<<>>} : OpenIf(results)

\* The values a frame leaves when it is closed: its results, or nothing
\* when its end is unreachable.
FrameClosable ==
    /\ phase = "build" /\ control # <<>>
    /\ Top.dead \/ Avail = Len(Get(exprs, Top.block).results)

LeftValues == IF Top.dead THEN <<>> ELSE TopOperands(Avail)

BuildElse ==
    /\ FrameClosable /\ Top.role = "then" /\ Room(2)
    /\ LET blk == Get(exprs, Top.block)
           closed == ExtendExprs(exprs, Top.block, LeftValues)
       IN  /\ exprs' = Alloc(closed, NewBlock("IfElse", blk.params, blk.results))
           /\ control' = [control EXCEPT ![Len(control)] =
                            Frame(NextId(exprs), Top.height, "else",
                                  Top.condition, Top.block)]
    /\ issued' = issued \cup {NextId(exprs)}
    /\ operands' = SubSeq(operands, 1, Top.height)
    /\ UNCHANGED <<phase, rewritten, walkVars, analysisVars, subject, renderVars>>

\* Where a finished expression goes: onto the operand stack when it yields
\* values, into the enclosing block's body otherwise.
Finish(arena, id, yields) ==
    LET parent == control[Len(control) - 1]
    IN  IF yields
        THEN /\ exprs' = arena
             /\ operands' = Append(SubSeq(operands, 1, Top.height), id)
        ELSE /\ exprs' = PushExpr(arena, parent.block, id)
             /\ operands' = SubSeq(operands, 1, Top.height)

BuildEnd ==
    /\ FrameClosable /\ Len(control) > 1
    /\ LET blk == Get(exprs, Top.block)
           closed == ExtendExprs(exprs, Top.block, LeftValues)
           yields == blk.results # <<>>
       IN  \/ /\ Top.role = "plain"
              /\ Finish(closed, Top.block, yields)
              /\ UNCHANGED issued
           \/ /\ Top.role = "then" /\ ~yields /\ Room(2)
              /\ LET alt == NextId(closed)
                     withAlt == Alloc(closed, NewBlock("IfElse", blk.params, blk.results))
                 IN  /\ Finish(Alloc(withAlt,
                                     [variant |-> "IfElse", condition |-> Top.condition,
                                      consequent |-> Top.block, alternative |-> alt]),
                               NextId(withAlt), FALSE)
                     /\ issued' = issued \cup {alt, NextId(withAlt)}
           \/ /\ Top.role = "else" /\ Room(1)
              /\ Finish(Alloc(closed,
                              [variant |-> "IfElse", condition |-> Top.condition,
                               consequent |-> Top.consequent, alternative |-> Top.block]),
                        NextId(closed), yields)
              /\ issued' = issued \cup {NextId(closed)}
    /\ control' = SubSeq(control, 1, Len(control) - 1)
    /\ UNCHANGED <<phase, rewritten, walkVars, analysisVars, subject, renderVars>>

\* The end of the function body.
BuildFunctionEnd ==
    /\ FrameClosable /\ Len(control) = 1
    /\ exprs' = ExtendExprs(exprs, Top.block, LeftValues)
    /\ operands' = <<>>
    /\ control' = <<>>
    /\ phase' = "built"
    /\ UNCHANGED <<issued, rewritten, walkVars, analysisVars, subject, renderVars>>

\* After an unconditional branch the rest of the frame is unreachable.
MarkDead == [control EXCEPT ![Len(control)].dead = TRUE]

BuildBr ==
    /\ Building /\ Room(1)
    /\ \E depth \in 0..(Len(control) - 1) :
         LET n == LabelArity(Get(exprs, Target(depth)))
         IN  /\ Avail >= n
             /\ exprs' = PushExpr(Alloc(exprs, [variant |-> "Br", block |-> Target(depth),
                                                args |-> TopOperands(n)]),
                                  Top.block, NextId(exprs))
    /\ issued' = issued \cup {NextId(exprs)}
    /\ operands' = SubSeq(operands, 1, Top.height)
    /\ control' = MarkDead
    /\ UNCHANGED <<phase, rewritten, walkVars, analysisVars, subject, renderVars>>

BuildBrIf ==
    /\ Building /\ Room(1)
    /\ \E depth \in 0..(Len(control) - 1) :
         LET n == LabelArity(Get(exprs, Target(depth)))
         IN  /\ Avail >= n + 1
             /\ exprs' = PushExpr(Alloc(exprs, [variant |-> "BrIf",
                                                condition |-> TopOperands(1)[1],
                                                block |-> Target(depth),
                                                args |-> SubSeq(TopOperands(n + 1), 1, n)]),
                                  Top.block, NextId(exprs))
             /\ operands' = DropOperands(n + 1)
    /\ issued' = issued \cup {NextId(exprs)}
    /\ UNCHANGED <<control, phase, rewritten, walkVars, analysisVars, subject, renderVars>>

BuildBrTable ==
    /\ Building /\ Room(1)
    /\ \E table \in SeqsUpTo(0..(Len(control) - 1), 1), default \in 0..(Len(control) - 1) :
         LET n == LabelArity(Get(exprs, Target(default)))
         IN  /\ \A i \in DOMAIN table : LabelArity(Get(exprs, Target(table[i]))) = n
             /\ Avail >= n + 1
             /\ exprs' = PushExpr(Alloc(exprs, [variant |-> "BrTable",
                                                which |-> TopOperands(1)[1],
                                                blocks |-> [i \in DOMAIN table |-> Target(table[i])],
                                                default |-> Target(default),
                                                args |-> SubSeq(TopOperands(n + 1), 1, n)]),
                                  Top.block, NextId(exprs))
    /\ issued' = issued \cup {NextId(exprs)}
    /\ operands' = SubSeq(operands, 1, Top.height)
    /\ control' = MarkDead
    /\ UNCHANGED <<phase, rewritten, walkVars, analysisVars, subject, renderVars>>

Build ==
    \/ BuildConst
    \/ BuildBinop
    \/ BuildDrop
    \/ BuildBlock
    \/ BuildIf
    \/ BuildElse
    \/ BuildEnd
    \/ BuildFunctionEnd
    \/ BuildBr
    \/ BuildBrIf
    \/ BuildBrTable

BuildTyped ==
    \/ Build
    \/ BuildBlockTyped
    \/ BuildIfTyped

(***************************************************************************)
(* The state every specification starts from, apart from its phase.        *)
(***************************************************************************)
EntryBlock(results) == NewBlock("FunctionEntry", <<>>, results)

\* The result lists of the function signatures the decoder supplies.
FunctionResults == SeqsUpTo(ValTypes, MaxArity)

Start(results) ==
    /\ exprs = <<EntryBlock(results)>>
    /\ issued = {ExprId(0)}
    /\ control = <<Frame(ExprId(0), 0, "plain", NoId, NoId)>>
    /\ operands = <<>>
    /\ rewritten = FALSE
    /\ stack = <<>>
    /\ visited = <<>>
    /\ cursor = 0
    /\ nTrue = 0
    /\ nFalse = 0
    /\ subject = None
    /\ verdict = FALSE
    /\ f = ""
    /\ out = ""

InitBuild == \E results \in FunctionResults : Start(results) /\ phase = "build"

SpecBuild == InitBuild /\ [][BuildTyped]_vars

(***************************************************************************)
(* Rewrite passes.  A pass overwrites one node through replace: it points  *)
(* one operand or body entry of the node at another id, retargets a        *)
(* branch, or simplifies the node to unreachable.                          *)
(***************************************************************************)
IsBlock(arena, id) == Valid(arena, id) /\ Get(arena, id).variant = "Block"

SetAt(seq, i, u) == [seq EXCEPT ![i] = u]

\* The payloads that differ from e in one ExprId-typed field, now u.
RedirectExpr(e, u) ==
    CASE e.variant = "Block" -> {[e EXCEPT !.exprs = SetAt(@, i, u)] : i \in DOMAIN e.exprs}
      [] e.variant = "Binop" -> {[e EXCEPT !.lhs = u], [e EXCEPT !.rhs = u]}
      [] e.variant = "Drop" -> {[e EXCEPT !.expr = u]}
      [] e.variant = "Br" -> {[e EXCEPT !.args = SetAt(@, i, u)] : i \in DOMAIN e.args}
      [] e.variant = "BrIf" ->
           {[e EXCEPT !.condition = u]}
             \cup {[e EXCEPT !.args = SetAt(@, i, u)] : i \in DOMAIN e.args}
      [] e.variant = "BrTable" ->
           {[e EXCEPT !.which = u]}
             \cup {[e EXCEPT !.args = SetAt(@, i, u)] : i \in DOMAIN e.args}
      [] e.variant = "IfElse" -> {[e EXCEPT !.condition = u]}
      [] OTHER -> {}

\* The payloads that differ from e in one BlockId-typed field, now b.
RedirectBlock(e, b) ==
    CASE e.variant = "Br" -> {[e EXCEPT !.block = b]}
      [] e.variant = "BrIf" -> {[e EXCEPT !.block = b]}
      [] e.variant = "BrTable" ->
           {[e EXCEPT !.default = b]}
             \cup {[e EXCEPT !.blocks = SetAt(@, i, b)] : i \in DOMAIN e.blocks}
      [] e.variant = "IfElse" -> {[e EXCEPT !.consequent = b], [e EXCEPT !.alternative = b]}
      [] OTHER -> {}

RewritePayloads(arena, id) ==
    LET e == Get(arena, id)
        ids == {ExprId(i) : i \in 0..(Len(arena) - 1)} \cup {ForeignId}
    IN  (UNION {RedirectExpr(e, u) : u \in ids}
           \cup UNION {RedirectBlock(e, b) : b \in {u \in ids : IsBlock(arena, u)}}
           \cup (IF e.variant = "Block" THEN {} ELSE {[variant |-> "Unreachable"]}))
          \ {e}

Rewrite ==
    /\ phase = "built"
    /\ ~rewritten
    /\ Len(exprs) <= MaxPassNodes
    /\ \E id \in issued : \E e \in RewritePayloads(exprs, id) :
         exprs' = Replace(exprs, id, e)
    /\ rewritten' = TRUE
    /\ UNCHANGED <<issued, control, operands, phase, walkVars, analysisVars, subject,
                   renderVars>>

(***************************************************************************)
(* The traversal.  ExprId::visit resolves the id in the function's arena   *)
(* and hands the node to the visitor, whose handler recurses into the      *)
(* node's visited fields in order.  stack holds the visit calls still to   *)
(* be made, the next one first.                                            *)
(***************************************************************************)
\* A lookup that checks the index and not the arena that issued the id.
MutResolveIgnoresArena(arena, id) ==
    IF id.idx < Len(arena)
    THEN [ok |-> TRUE, node |-> Get(arena, id)]
    ELSE [ok |-> FALSE, node |-> None]

\* local_function().exprs[id]: indexing an arena with an id it did not
\* issue panics.
Resolve(arena, id) ==
    IF Valid(arena, id)
    THEN [ok |-> TRUE, node |-> Get(arena, id)]
    ELSE [ok |-> FALSE, node |-> None]

\* The function's entry block.
Entry == ExprId(0)

StartWalk ==
    /\ phase = "built"
    /\ phase' = "walk"
    /\ stack' = <<Entry>>
    /\ visited' = <<>>
    /\ UNCHANGED <<buildVars, analysisVars, subject, renderVars>>

VisitExpr ==
    /\ phase = "walk"
    /\ stack # <<>>
    /\ Len(visited) < MaxVisits
    /\ LET r == Resolve(exprs, Head(stack))
           rest == VisitFields(r.node) \o Tail(stack)
       IN  /\ r.ok
           /\ visited' = Append(visited, Head(stack))
           /\ stack' = rest
           /\ phase' = IF rest = <<>> THEN "done" ELSE "walk"
    /\ UNCHANGED <<buildVars, analysisVars, subject, renderVars>>

VisitPanic ==
    /\ phase = "walk"
    /\ stack # <<>>
    /\ ~Resolve(exprs, Head(stack)).ok
    /\ phase' = "panic"
    /\ UNCHANGED <<buildVars, walkVars, analysisVars, subject, renderVars>>

Init == \E results \in FunctionResults : Start(results) /\ phase = "build"

Next ==
    \/ Build
    \/ Rewrite
    \/ StartWalk
    \/ VisitExpr
    \/ VisitPanic

Spec == Init /\ [][Next]_vars

\* The walk is a synchronous recursion: once started it keeps going.
LiveSpec == Spec /\ WF_vars(VisitExpr) /\ WF_vars(VisitPanic)

(***************************************************************************)
(* A pass working on the arena alone: any sequence of insert and replace.  *)
(***************************************************************************)
PassPayloads(arena) ==
    {[variant |-> "Const", value |-> 0]}
      \cup {[variant |-> "Drop", expr |-> ExprId(i)] : i \in 0..(Len(arena) - 1)}

ArenaInsert ==
    /\ phase = "pass"
    /\ Len(exprs) < MaxPassNodes
    /\ \E e \in PassPayloads(exprs) : exprs' = Alloc(exprs, e)
    /\ issued' = issued \cup {NextId(exprs)}
    /\ subject' = [variant |-> "Inserted", id |-> NextId(exprs)]
    /\ UNCHANGED <<control, operands, phase, rewritten, walkVars, analysisVars, renderVars>>

ArenaReplace ==
    /\ phase = "pass"
    /\ \E id \in issued : \E e \in PassPayloads(exprs) \ {Get(exprs, id)} :
         /\ exprs' = Replace(exprs, id, e)
         /\ subject' = [variant |-> "Replaced", id |-> id]
    /\ rewritten' = TRUE
    /\ UNCHANGED <<issued, control, operands, phase, walkVars, analysisVars, renderVars>>

InitArena == Start(<<>>) /\ phase = "pass"

NextArena ==
    \/ ArenaInsert
    \/ ArenaReplace

SpecArena == InitArena /\ [][NextArena]_vars

(***************************************************************************)
(* Reachability analysis: one instance of every variant, in declaration    *)
(* order, is handed to following_instructions_are_unreachable.             *)
(***************************************************************************)
SampleIds == {ExprId(0), ExprId(1)}

Classify ==
    /\ phase = "analysis"
    /\ cursor < Len(ExprVariants)
    /\ \E e \in ExprsOfVariant(ExprVariants[cursor + 1], SampleIds, SampleIds) :
         LET r == following_instructions_are_unreachable(e)
         IN  /\ subject' = e
             /\ verdict' = r
             /\ nTrue' = IF r THEN nTrue + 1 ELSE nTrue
             /\ nFalse' = IF r THEN nFalse ELSE nFalse + 1
    /\ cursor' = cursor + 1
    /\ UNCHANGED <<buildVars, walkVars, renderVars, phase>>

InitAnalysis == Start(<<>>) /\ phase = "analysis"

NextAnalysis == Classify

SpecAnalysis == InitAnalysis /\ [][NextAnalysis]_vars

(***************************************************************************)
(* Rendering: a block's keyword is pushed to the fresh buffer, a branch's  *)
(* annotation is pushed after whatever the buffer holds.                   *)
(***************************************************************************)
RenderIds == {ExprId(i) : i \in 0..MaxIndex}

RenderBlocks ==
    {[variant |-> "Block", kind |-> k, params |-> <<>>, results |-> <<>>, exprs |-> <<>>] :
        k \in BlockKind}

RenderBlockName ==
    /\ phase = "render"
    /\ f = ""
    /\ \E b \in RenderBlocks :
         /\ f' = f \o display_block_name(b)
         /\ subject' = b
    /\ UNCHANGED <<buildVars, walkVars, analysisVars, phase, out>>

RenderDotBlockName ==
    /\ phase = "render"
    /\ out = ""
    /\ \E b \in RenderBlocks :
         /\ out' = out \o dot_block_name(b)
         /\ subject' = b
    /\ UNCHANGED <<buildVars, walkVars, analysisVars, phase, f>>

RenderBr ==
    /\ phase = "render"
    /\ \E b \in RenderIds, a \in SeqsUpTo({ExprId(0)}, 1) :
         LET e == [variant |-> "Br", block |-> b, args |-> a]
         IN  /\ f' = f \o display_br(e)
             /\ subject' = e
    /\ phase' = "rendered"
    /\ UNCHANGED <<buildVars, walkVars, analysisVars, out>>

RenderBrIf ==
    /\ phase = "render"
    /\ \E b \in RenderIds, a \in SeqsUpTo({ExprId(0)}, 1) :
         LET e == [variant |-> "BrIf", condition |-> ExprId(0), block |-> b, args |-> a]
         IN  /\ f' = f \o display_br_if(e)
             /\ subject' = e
    /\ phase' = "rendered"
    /\ UNCHANGED <<buildVars, walkVars, analysisVars, out>>

RenderBrTable ==
    /\ phase = "render"
    /\ \E t \in SeqsUpTo(RenderIds, MaxTable), d \in RenderIds :
         LET e == [variant |-> "BrTable", which |-> ExprId(0), blocks |-> t,
                   default |-> d, args |-> <<>>]
         IN  /\ f' = f \o display_br_table(e)
             /\ subject' = e
    /\ phase' = "rendered"
    /\ UNCHANGED <<buildVars, walkVars, analysisVars, out>>

RenderBinopName ==
    /\ phase = "render"
    /\ \E o \in BinaryOp :
         LET e == [variant |-> "Binop", op |-> o, lhs |-> ExprId(0), rhs |-> ExprId(0)]
         IN  /\ f' = f \o display_binop_name(e)
             /\ subject' = e
    /\ phase' = "rendered"
    /\ UNCHANGED <<buildVars, walkVars, analysisVars, out>>

RenderDotBinopName ==
    /\ phase = "render"
    /\ \E o \in BinaryOp :
         LET e == [variant |-> "Binop", op |-> o, lhs |-> ExprId(0), rhs |-> ExprId(0)]
         IN  /\ out' = out \o dot_binop_name(e)
             /\ subject' = e
    /\ phase' = "rendered"
    /\ UNCHANGED <<buildVars, walkVars, analysisVars, f>>

RenderUnopName ==
    /\ phase = "render"
    /\ \E o \in UnaryOp :
         LET e == [variant |-> "Unop", op |-> o, expr |-> ExprId(0)]
         IN  /\ f' = f \o display_unop_name(e)
             /\ subject' = e
    /\ phase' = "rendered"
    /\ UNCHANGED <<buildVars, walkVars, analysisVars, out>>

RenderDotUnopName ==
    /\ phase = "render"
    /\ \E o \in UnaryOp :
         LET e == [variant |-> "Unop", op |-> o, expr |-> ExprId(0)]
         IN  /\ out' = out \o dot_unop_name(e)
             /\ subject' = e
    /\ phase' = "rendered"
    /\ UNCHANGED <<buildVars, walkVars, analysisVars, f>>

RenderDot ==
    /\ phase = "render"
    /\ \E id \in RenderIds :
         /\ out' = out \o dot(id)
         /\ subject' = [variant |-> "ExprId", id |-> id]
    /\ phase' = "rendered"
    /\ UNCHANGED <<buildVars, walkVars, analysisVars, f>>

InitRender == Start(<<>>) /\ phase = "render"

NextRender ==
    \/ RenderBlockName
    \/ RenderDotBlockName
    \/ RenderBr
    \/ RenderBrIf
    \/ RenderBrTable
    \/ RenderBinopName
    \/ RenderDotBinopName
    \/ RenderUnopName
    \/ RenderDotUnopName
    \/ RenderDot

SpecRender == InitRender /\ [][NextRender]_vars

(***************************************************************************)
(* The lexical structure the specification speaks of: a node's operands    *)
(* and body entries, in the order the specification gives, with branch     *)
(* targets left out.  Stated on its own, not through VisitFields.          *)
(***************************************************************************)
OperandFields(e) ==
    CASE e.variant = "Block" -> e.exprs
      [] e.variant = "Binop" -> <<e.lhs, e.rhs>>
      [] e.variant = "Drop" -> <<e.expr>>
      [] e.variant = "Br" -> e.args
      [] e.variant = "BrIf" -> <<e.condition>> \o e.args
      [] e.variant = "BrTable" -> <<e.which>> \o e.args
      [] e.variant = "IfElse" -> <<e.condition, e.consequent, e.alternative>>
      [] e.variant \in {"Const", "Unreachable"} -> <<>>

LexChildren(id) ==
    IF Valid(exprs, id) THEN Range(OperandFields(Get(exprs, id))) ELSE {}

RECURSIVE LexClosure(_)
LexClosure(S) ==
    LET T == S \cup UNION {LexChildren(x) : x \in S}
    IN  IF T = S THEN S ELSE LexClosure(T)

\* Every id the body refers to, starting at the entry block.
LexReach == LexClosure({Entry})

LexAcyclic == \A id \in LexReach : id \notin LexClosure(LexChildren(id))

Count(seq, x) == Cardinality({i \in DOMAIN seq : seq[i] = x})

\* Number of operand / body fields of reachable nodes that hold id.
RefCount(id) ==
    Cardinality({pi \in LexReach \X (1..MaxNodes) :
                    /\ Valid(exprs, pi[1])
                    /\ pi[2] \in DOMAIN OperandFields(Get(exprs, pi[1]))
                    /\ OperandFields(Get(exprs, pi[1]))[pi[2]] = id})

\* The referential invariants of the data model.
WellFormed ==
    /\ \A id \in LexReach : Valid(exprs, id)
    /\ LexAcyclic
    /\ \A id \in LexReach :
         \A i \in DOMAIN BranchTargets(Get(exprs, id)) :
           IsBlock(exprs, BranchTargets(Get(exprs, id))[i])

\* No node is held by two fields.
TreeShaped == \A id \in LexReach : RefCount(id) <= 1

RECURSIVE ExpectedWalkAll(_)
RECURSIVE ExpectedWalk(_)
\* The pre-order, left-to-right walk of the lexical structure below id.
ExpectedWalk(id) == <<id>> \o ExpectedWalkAll(OperandFields(Get(exprs, id)))
ExpectedWalkAll(ids) ==
    IF ids = <<>> THEN <<>> ELSE ExpectedWalk(Head(ids)) \o ExpectedWalkAll(Tail(ids))

\* The reachable branches that name block b as a target.
BranchesTo(b) ==
    {id \in LexReach : Valid(exprs, id) /\ b \in Range(BranchTargets(Get(exprs, id)))}

Walking == phase \in {"walk", "done", "panic"}

(***************************************************************************)
(* C1.  For every Expr node, whatever its field values,                    *)
(* following_instructions_are_unreachable returns true if and only if the  *)
(* node is Unreachable, Br, BrTable or Return; BrIf and IfElse and every   *)
(* other variant give false.                                               *)
(***************************************************************************)
C1_UnreachableIffUnconditional ==
    (phase = "analysis" /\ cursor > 0) =>
        /\ verdict = (subject.variant \in {"Unreachable", "Br", "BrTable", "Return"})
        /\ subject.variant \in {"BrIf", "IfElse"} => ~verdict

C1_Witness ==
    /\ phase = "analysis"
    /\ subject.variant = "BrIf"
    /\ subject.args # <<>>
    /\ verdict = FALSE

(***************************************************************************)
(* C9.  As claimed: the enumeration has exactly 25 variants, 4 classified  *)
(* true and 21 classified false.                                           *)
(***************************************************************************)
C9_Original_25Variants ==
    (phase = "analysis" /\ cursor = Len(ExprVariants)) =>
        /\ cursor = 25
        /\ nTrue = 4
        /\ nFalse = 21

(***************************************************************************)
(* C9, amended.  The enumeration has exactly 23 variants; once each has    *)
(* been classified, 4 (Unreachable, Br, BrTable, Return) are true and the  *)
(* other 19 are false, and no variant is left without an arm.              *)
(***************************************************************************)
C9_Amended_23Variants ==
    /\ Cardinality(Range(ExprVariants)) = Len(ExprVariants)
    /\ phase = "analysis" => nTrue + nFalse = cursor
    /\ (phase = "analysis" /\ cursor = Len(ExprVariants)) =>
          /\ cursor = 23
          /\ nTrue = 4
          /\ nFalse = 19

C9_Witness ==
    /\ phase = "analysis"
    /\ cursor = Len(ExprVariants)
    /\ subject.variant = "Store"

(***************************************************************************)
(* C2.  Single-visit law: a block that sits once in the lexical structure  *)
(* and is the target of a branch is handed to the visitor at most once     *)
(* while the walk runs, exactly once when it is done, and after the node   *)
(* that holds it: never again from a Br, BrIf or BrTable naming it.        *)
(***************************************************************************)
C2_SingleVisit ==
    (Walking /\ WellFormed /\ TreeShaped) =>
        \A b \in LexReach :
            (IsBlock(exprs, b) /\ BranchesTo(b) # {}) =>
                /\ Count(visited, b) <= 1
                /\ phase = "done" => Count(visited, b) = 1
                /\ \A j \in DOMAIN visited :
                     (visited[j] = b /\ b # Entry) =>
                         \E i \in 1..(j - 1) : b \in LexChildren(visited[i])

C2_Witness ==
    /\ phase = "done"
    /\ WellFormed /\ TreeShaped
    /\ \E b \in LexReach \ {Entry} :
         /\ IsBlock(exprs, b)
         /\ Count(visited, b) = 1
         /\ Cardinality(BranchesTo(b)) >= 2
         /\ \E x \in BranchesTo(b) : Get(exprs, x).variant = "Br"

(***************************************************************************)
(* C3.  As claimed: on every well-formed body, shared children included,   *)
(* a finished walk has visited every reachable node exactly once.          *)
(***************************************************************************)
C3_Original_ExactlyOnce ==
    (phase = "done" /\ WellFormed) =>
        \A id \in LexReach : Count(visited, id) = 1

(***************************************************************************)
(* C3, amended.  On a well-formed body a finished walk is the pre-order    *)
(* walk of the lexical structure, children in declared field order; it     *)
(* visits every reachable node, and nothing else, and visits each node     *)
(* exactly once when no node is held by two fields.  A child that two      *)
(* fields point at is visited once per field.                              *)
(***************************************************************************)
C3_Amended_PreorderOncePerReference ==
    (phase = "done" /\ WellFormed) =>
        /\ visited = ExpectedWalk(Entry)
        /\ Range(visited) = LexReach
        /\ TreeShaped => \A id \in LexReach : Count(visited, id) = 1
        /\ \A id \in LexReach \ {Entry} :
             RefCount(id) >= 2 => Count(visited, id) >= 2

C3_Witness ==
    /\ phase = "done"
    /\ WellFormed
    /\ \E id \in LexReach : Count(visited, id) = 2
    /\ \E id \in LexReach : Get(exprs, id).variant = "Binop"

(***************************************************************************)
(* C4.  On a well-formed body the walk from the entry block terminates,    *)
(* branches back to an enclosing loop or any other ancestor included, and  *)
(* never makes more visits than the lexical structure has entries.         *)
(***************************************************************************)
C4_WalkTerminates ==
    /\ [](( phase = "walk" /\ WellFormed) => Len(visited) < Len(ExpectedWalk(Entry)))
    /\ ((phase = "walk" /\ WellFormed) ~> (phase = "done"))

\* A finished walk over a loop whose body branches back to it.
C4_Witness ==
    /\ phase = "done"
    /\ WellFormed
    /\ \E b \in LexReach :
         /\ IsBlock(exprs, b)
         /\ Get(exprs, b).kind = "Loop"
         /\ BranchesTo(b) \cap LexClosure(LexChildren(b)) # {}

(***************************************************************************)
(* C5.  No deletion: insert appends under an id never issued before and    *)
(* replace overwrites the payload of one id; neither removes an id nor     *)
(* touches the payload of another node, so every issued id keeps           *)
(* resolving.                                                              *)
(***************************************************************************)
C5_NoDeletion ==
    /\ [](issued = {ExprId(i) : i \in 0..(Len(exprs) - 1)})
    /\ [][/\ issued \subseteq issued'
          /\ \A id \in issued : Valid(exprs', id)
          /\ subject'.variant = "Inserted" =>
                /\ subject'.id \notin issued
                /\ \A id \in issued : Get(exprs', id) = Get(exprs, id)
          /\ subject'.variant = "Replaced" =>
                /\ issued' = issued
                /\ \A id \in issued \ {subject'.id} : Get(exprs', id) = Get(exprs, id)
         ]_vars

\* A replaced node that another node still refers to.
C5_Witness ==
    /\ phase = "pass"
    /\ subject.variant = "Replaced"
    /\ Len(exprs) = MaxPassNodes
    /\ \E id \in issued :
         /\ Get(exprs, id).variant = "Drop"
         /\ Get(exprs, id).expr = subject.id
         /\ id # subject.id

(***************************************************************************)
(* C6.  Branch arity law: every Br, BrIf and BrTable the construction pass *)
(* builds carries as many args as each of its targets declares: the length *)
(* of results for a Block or IfElse target, of params for a Loop target.   *)
(***************************************************************************)
C6_BranchArity ==
    \A id \in issued :
        LET e == Get(exprs, id)
        IN  \A i \in DOMAIN BranchTargets(e) :
              LET t == Get(exprs, BranchTargets(e)[i])
              IN  /\ t.variant = "Block"
                  /\ t.kind \in {"Block", "IfElse"} => Len(e.args) = Len(t.results)
                  /\ t.kind = "Loop" => Len(e.args) = Len(t.params)

C6_Witness ==
    \E id \in issued :
        LET e == Get(exprs, id)
        IN  /\ e.variant = "Br"
            /\ Get(exprs, e.block).kind = "Loop"
            /\ Len(Get(exprs, e.block).params) = 1
            /\ Get(exprs, e.block).results = <<>>
            /\ Len(e.args) = 1

(***************************************************************************)
(* The text a branch pushes, read back from the buffer: the annotation is  *)
(* what f gained, and Find gives the position of a pattern in it (0 when   *)
(* it does not occur).                                                     *)
(***************************************************************************)
RECURSIVE Entries(_)
Entries(t) ==
    IF t = <<>> THEN ""
    ELSE (IF Len(t) > 1 THEN Entries(SubSeq(t, 1, Len(t) - 1)) \o " " ELSE "")
           \o "e" \o ToString(t[Len(t)].idx)

Find(text, pat) ==
    LET hits == {i \in 1..(Len(text) - Len(pat) + 1) :
                    SubSeq(text, i, i + Len(pat) - 1) = pat}
    IN  IF hits = {} THEN 0 ELSE CHOOSE i \in hits : \A j \in hits : i <= j

Pushed == SubSeq(f', Len(f) + 1, Len(f'))

BranchTemplates ==
    /\ subject'.variant \in {"Br", "BrIf"} =>
          f' = f \o " (;e" \o ToString(subject'.block.idx) \o ";)"
    /\ subject'.variant = "BrTable" =>
          f' = f \o " (;default:e" \o ToString(subject'.default.idx)
                 \o "  [" \o Entries(subject'.blocks) \o "];)"
    /\ (subject'.variant = "Br" /\ subject'.block.idx = 2 /\ f = "") =>
          f' = " (;e2;)"
    /\ (subject'.variant = "BrTable" /\ subject'.blocks = <<ExprId(2), ExprId(3)>>
          /\ subject'.default = ExprId(4) /\ f = "") =>
          f' = " (;default:e4  [e2 e3];)"
    /\ (subject'.variant = "BrTable" /\ subject'.blocks = <<>>
          /\ subject'.default = ExprId(10) /\ f = "loop") =>
          f' = "loop (;default:e10  [];)"

(***************************************************************************)
(* C7, as claimed.  Br and BrIf push " (;e{index};)"; BrTable pushes       *)
(* " (;default:e{d}  [e{b1} e{b2} ...];)", and in the pushed text the      *)
(* listing of the table entries stands before the default.                 *)
(***************************************************************************)
C7_Original_EntriesBeforeDefault ==
    [][(phase = "render" /\ phase' = "rendered") =>
          /\ BranchTemplates
          /\ (subject'.variant = "BrTable" /\ subject'.blocks # <<>>) =>
                /\ Find(Pushed, "[" \o Entries(subject'.blocks) \o "]") > 0
                /\ Find(Pushed, "[" \o Entries(subject'.blocks) \o "]")
                      < Find(Pushed, "default:")
      ]_vars

(***************************************************************************)
(* C7, amended.  Br and BrIf push " (;e{index};)" with the target's raw    *)
(* decimal index; BrTable pushes " (;default:e{d}  [..];)": the default    *)
(* stands first and the table entries follow it in brackets, in table      *)
(* order, each "e{index}", single spaces between them and "[]" for the     *)
(* empty table.                                                            *)
(***************************************************************************)
C7_Amended_DefaultThenEntries ==
    [][(phase = "render" /\ phase' = "rendered") =>
          /\ BranchTemplates
          /\ subject'.variant = "BrTable" =>
                /\ Find(Pushed, "default:") = 4
                /\ Find(Pushed, "[" \o Entries(subject'.blocks) \o "]")
                      > Find(Pushed, "default:")
      ]_vars

C7_Witness ==
    /\ phase = "rendered"
    /\ subject.variant = "BrTable"
    /\ f = "block (;default:e4  [e10 e3];)"

(***************************************************************************)
(* C8.  As claimed: in the textual and in the graph rendering alike a      *)
(* block's kind name is "loop" for Loop and "block" for the other three.   *)
(***************************************************************************)
C8_Original_BlockOrLoop ==
    [][(phase = "render" /\ subject'.variant = "Block") =>
          /\ f' # f => f' = f \o (IF subject'.kind = "Loop" THEN "loop" ELSE "block")
          /\ out' # out => out' = out \o (IF subject'.kind = "Loop" THEN "loop" ELSE "block")
      ]_vars

(***************************************************************************)
(* C8, amended.  The textual rendering names a block "loop" for Loop and   *)
(* "block" for Block, IfElse and FunctionEntry; the graph rendering names  *)
(* the four kinds "block", "loop", "if_else" and "entry".                  *)
(***************************************************************************)
C8_Amended_TextVersusGraph ==
    [][(phase = "render" /\ subject'.variant = "Block") =>
          /\ f' # f => f' = f \o (IF subject'.kind = "Loop" THEN "loop" ELSE "block")
          /\ out' # out =>
               out' = out \o (CASE subject'.kind = "Block" -> "block"
                                [] subject'.kind = "Loop" -> "loop"
                                [] subject'.kind = "IfElse" -> "if_else"
                                [] subject'.kind = "FunctionEntry" -> "entry")
      ]_vars

C8_Witness ==
    /\ phase = "render"
    /\ f = "block"
    /\ out = "if_else"
    /\ subject.kind = "IfElse"

(***************************************************************************)
(* C10.  Resolving an id the function's arena did not issue fails at once: *)
(* the walk stops in a panic before the visitor sees anything for that id, *)
(* it makes no further visit, and no walk finishes over a body that holds  *)
(* such an id.                                                             *)
(***************************************************************************)
C10_ForeignIdPanics ==
    /\ [](Walking =>
            /\ \A i \in DOMAIN visited : Valid(exprs, visited[i])
            /\ phase = "panic" => (stack # <<>> /\ ~Valid(exprs, Head(stack)))
            /\ phase = "done" => \A id \in LexReach : Valid(exprs, id))
    /\ [][(phase = "walk" /\ stack # <<>> /\ ~Valid(exprs, Head(stack))) =>
             (phase' = "panic" /\ visited' = visited /\ stack' = stack)]_vars
    /\ [][phase = "panic" => UNCHANGED vars]_vars

C10_Witness ==
    /\ phase = "panic"
    /\ Head(stack) = ForeignId
    /\ Len(visited) >= 2

====
